---- MODULE Spec2Model ----
(***************************************************************************)
(* ClassGuard AI backend: the attendance summary with its auto-lock rule   *)
(* (main.py, attendance_summary), the manual lock and unlock endpoints     *)
(* (manual_lock, manual_unlock) and the attendance log endpoint            *)
(* (log_attendance), running as concurrent requests over one document      *)
(* store.                                                                  *)
(*                                                                         *)
(* Percentages are kept in hundredths of a percent: 6667 is 66.67.         *)
(* Time is counted in days: a datetime is an integer, timedelta(days=d)    *)
(* is d.                                                                   *)
(***************************************************************************)
EXTENDS Integers, FiniteSets, Sequences, Bags, TLC

(* ------------------------------ bounds -------------------------------- *)

\* most attendance documents the store holds
MaxLogs == 2
\* last value of the clock
MaxNow == 1
\* largest record count given to the percentage computation on its own
MaxTotal == 12

(* ------------------------- program constants -------------------------- *)

\* Query(120, ge=1, le=365)
MinDays == 1
MaxDays == 365
\* percentage < 75.0, in hundredths
LockThreshold == 7500

Procs == {1, 2}

\* _id values of the student documents in the store
StudentOids == {1, 2}

\* the 24-digit hexadecimal text of an ObjectId
HexIds == <<"65f000000000000000000001", "65f000000000000000000002",
            "65f000000000000000000003">>

InvalidId == 0

\* bson.ObjectId(student_id): the text must be 24 hexadecimal digits,
\* anything else raises bson.errors.InvalidId
ObjectId(s) ==
    IF \E i \in DOMAIN HexIds : HexIds[i] = s
    THEN CHOOSE i \in DOMAIN HexIds : HexIds[i] = s
    ELSE InvalidId

\* path parameters the requests are made with: the two stored students,
\* a well-formed id of no student, and a text that is no ObjectId
StudentIdInputs == {HexIds[1], HexIds[2], HexIds[3], "S1"}

\* student_id values of attendance payloads (any str is accepted)
LogStudentInputs == {HexIds[1], HexIds[2]}

\* Student.category, schemas.py
Categories == {"5-10", "11-12", "jee", "neet", "mht-cet", "engineering"}
\* the categories of the two stored students
StoredCategory == <<"engineering", "jee">>

\* AttendanceLog.status; "unset" is a payload that leaves the field out
StatusInputs == {"present", "absent", "unset"}

\* timestamps a payload states: a day before the clock starts, and two
\* days after it starts
ExplicitTimestamps == {-1, 2}

\* AttendanceLog.timestamp: Field(default_factory=datetime.utcnow); "unset"
\* is a payload that leaves the field out
Unset == -1000
TimestampInputs == ExplicitTimestamps \cup {Unset}

\* days of the requests: below the range, the shortest window, above the range
DaysInputs == {0, 1, 366}

\* outcome of one call to the store: it answers, or it raises (db is None
\* in _collection, or the driver fails)
StorageOutcomes == {"ok", "raise"}
\* a raising update may or may not have been applied by the server
UpdateOutcomes == {"ok", "raise", "raise_applied"}

VARIABLES
    now,        \* datetime.utcnow(), in days
    students,   \* collection "student": _id -> document
    logs,       \* collection "attendancelog": bag of documents
    pc,         \* position of each request
    call,       \* locals of each request
    res,        \* response of each request
    calc        \* the percentage computation on its own

vars == <<now, students, logs, pc, call, res, calc>>

(* ------------------------------ helpers ------------------------------- *)

Abs(x) == IF x < 0 THEN -x ELSE x

\* a slip: the digits after the second decimal are cut off
Round2_Truncate(num, den) == (num * 10000) \div den

\* round(x, 2) of x = num / den * 100, as hundredths: Python rounds the
\* float to the nearest value with 2 decimals, a tie going to the even
\* digit.  num / den * 100 in binary floating point rounds like the exact
\* quotient for every den below 160 and for den = 5003 (the first den
\* where the two differ is 160, at 23/160).
Round2(num, den) ==
    LET scaled == num * 10000
        q == scaled \div den
        r == scaled % den
    IN  IF 2 * r > den THEN q + 1
        ELSE IF 2 * r < den THEN q
        ELSE IF q % 2 = 0 THEN q ELSE q + 1

\* percentage = round((present / total) * 100, 2) if total else 0.0
Percentage(present, total) ==
    IF total # 0 THEN Round2(present, total) ELSE 0

\* should_lock = percentage < 75.0
ShouldLock(percentage) == percentage < LockThreshold

\* a slip: the rule is applied whatever the category
AutoLockApplies_AnyCategory(student) == student.category \in Categories

\* student.get("category") == "engineering"
AutoLockApplies(student) == student.category = "engineering"

\* AttendanceLog: status defaults to "present"
StoredStatus(status) == IF status = "unset" THEN "present" ELSE status

\* l.get("status", "present") == "present"
IsPresent(l) == l.status = "present"

\* a slip: $gt for $gte
Matches_Gt(l, student_id, since) ==
    l.student_id = student_id /\ l.timestamp > since

\* the filter {"student_id": student_id, "timestamp": {"$gte": since}}
Matches(l, student_id, since) ==
    l.student_id = student_id /\ l.timestamp >= since

\* list(_collection("attendancelog").find(...)), as a bag
Find(student_id, since) ==
    LET hit == {l \in DOMAIN logs : Matches(l, student_id, since)}
    IN  [l \in hit |-> logs[l]]

\* sum(1 for l in logs if ...)
CountPresent(found) ==
    BagCardinality([l \in {x \in DOMAIN found : IsPresent(x)} |-> found[l]])

\* find_one found nothing
NoDoc == [_id |-> InvalidId, category |-> "", locked_for_attendance |-> FALSE]

\* find_one({"_id": oid})
FindOne(oid) == IF oid \in DOMAIN students THEN students[oid] ELSE NoDoc

\* a slip: the flag is only ever set, never cleared
UpdateOne_SetOnly(oid, v) ==
    IF oid \in DOMAIN students /\ v
    THEN [students EXCEPT ![oid].locked_for_attendance = v]
    ELSE students

\* update_one({"_id": oid}, {"$set": {"locked_for_attendance": v}})
UpdateOne(oid, v) ==
    IF oid \in DOMAIN students
    THEN [students EXCEPT ![oid].locked_for_attendance = v]
    ELSE students

MatchedCount(oid) == IF oid \in DOMAIN students THEN 1 ELSE 0

\* spec-modelled insert of database.create_document: the document is added
\* to the collection and nothing else changes
CreateDocument(doc) == logs (+) SetToBag({doc})

(* ----------------------------- responses ------------------------------ *)

NoRes ==
    [kind |-> "none", status |-> 0, cause |-> "", total |-> 0, present |-> 0,
     absent |-> 0, percentage |-> 0, locked_for_attendance |-> FALSE]

\* HTTPException(404, ...), the 422 of the Query bounds, and the 500 of an
\* exception no handler catches
Error(status, cause) == [NoRes EXCEPT !.kind = "error", !.status = status, !.cause = cause]

\* AttendanceSummary(total=..., present=..., absent=..., percentage=...,
\*                   locked_for_attendance=locked)
Summary(total, present, absent, percentage, locked) ==
    [kind |-> "summary", status |-> 200, cause |-> "", total |-> total,
     present |-> present, absent |-> absent, percentage |-> percentage,
     locked_for_attendance |-> locked]

\* {"locked": v}
Locked(v) == [NoRes EXCEPT !.kind = "lock", !.status = 200, !.locked_for_attendance = v]

(* ------------------------- locals of a request ------------------------ *)

\* wr, clean, stale, last and the prev fields are history, not locals of
\* the code:
\* wr    what became of the request's update_one
\* clean no other request has changed the store since this one began
\* stale another request wrote this request's student after this one
\*       read it and before this one finished
\* last  this request's write is the latest applied to its student
\* prev  the summary of the same request made just before, with no other
\*       request changing the store and no day passing since that request
\*       began (kind "none" when there is none); prevSince its window
\*       start, prevWr its wr
IdleCall ==
    [op |-> "none", student_id |-> "", days |-> 0, student |-> NoDoc,
     since |-> 0, total |-> 0, present |-> 0, absent |-> 0, percentage |-> 0,
     locked |-> FALSE, wr |-> "none", clean |-> TRUE, stale |-> FALSE,
     last |-> FALSE, prev |-> NoRes, prevSince |-> 0, prevWr |-> "none"]

\* request c no longer follows an earlier one immediately
Apart(c) == [c EXCEPT !.prev = NoRes, !.prevSince = 0, !.prevWr = "none"]

\* what a write by another request does to request c, at position at; oid
\* is the student written
Disturbed(c, at, oid) ==
    LET same == ObjectId(c.student_id) = oid
    IN  [Apart(c) EXCEPT !.clean = FALSE,
                  !.stale = IF same /\ at \in {"fetched", "computed"}
                            THEN TRUE ELSE c.stale,
                  !.last = IF same THEN FALSE ELSE c.last]

\* the locals of all requests after request q moved to c, having written
\* student oid (InvalidId: the attendance log was written)
AfterWrite(q, c, oid) ==
    [p \in Procs |-> IF p = q THEN c
                     ELSE IF pc[p] = "idle" THEN call[p]
                     ELSE Disturbed(call[p], pc[p], oid)]

TypeOK ==
    /\ now \in 0..MaxNow
    /\ DOMAIN students = StudentOids
    /\ \A o \in StudentOids :
          /\ students[o]._id = o
          /\ students[o].category \in Categories
          /\ students[o].locked_for_attendance \in BOOLEAN
    /\ IsABag(logs)
    /\ BagCardinality(logs) <= MaxLogs
    /\ pc \in [Procs -> {"idle", "fetched", "computed", "done"}]
    /\ \A p \in Procs : res[p].kind \in {"none", "summary", "lock", "error"}

Init ==
    /\ now = 0
    /\ students = [o \in StudentOids |->
                     [_id |-> o, category |-> StoredCategory[o],
                      locked_for_attendance |-> FALSE]]
    /\ logs = EmptyBag
    /\ pc = [p \in Procs |-> "idle"]
    /\ call = [p \in Procs |-> IdleCall]
    /\ res = [p \in Procs |-> NoRes]
    /\ calc = [stage |-> "idle", present |-> 0, total |-> 0,
               percentage |-> 0, should_lock |-> FALSE]

(* --------------------------- attendance_summary ----------------------- *)

\* lines 133-137: the Query bounds on days, then
\* _collection("student").find_one({"_id": ObjectId(student_id)}) and the
\* 404 of a missing student.  c holds the locals the request starts with.
FindStudent(p, c, out) ==
    LET oid == ObjectId(c.student_id)
        doc == FindOne(oid)
        stop(r) == /\ pc' = [pc EXCEPT ![p] = "done"]
                   /\ res' = [res EXCEPT ![p] = r]
                   /\ call' = [call EXCEPT ![p] = c]
    IN  /\ IF c.days < MinDays \/ c.days > MaxDays
              THEN stop(Error(422, "days"))
           ELSE IF out = "raise"
              THEN stop(Error(500, "storage"))
           ELSE IF oid = InvalidId
              THEN stop(Error(500, "InvalidId"))
           ELSE IF doc = NoDoc
              THEN stop(Error(404, "Student not found"))
           ELSE /\ pc' = [pc EXCEPT ![p] = "fetched"]
                /\ call' = [call EXCEPT ![p] = [c EXCEPT !.student = doc]]
                /\ res' = res
        /\ UNCHANGED <<now, students, logs, calc>>

\* a request GET /api/students/{student_id}/attendance/summary?days=...
attendance_summary_find_student(p, sid, days) ==
    /\ pc[p] = "idle"
    /\ \E out \in StorageOutcomes :
          FindStudent(p, [IdleCall EXCEPT !.op = "summary", !.student_id = sid,
                                          !.days = days], out)

\* the same request made again as soon as its summary has come back
attendance_summary_again(p) ==
    /\ pc[p] = "done"
    /\ res[p].kind = "summary"
    /\ call[p].clean
    /\ \E out \in StorageOutcomes :
          FindStudent(p, [IdleCall EXCEPT !.op = "summary",
                                          !.student_id = call[p].student_id,
                                          !.days = call[p].days,
                                          !.prev = res[p],
                                          !.prevSince = call[p].since,
                                          !.prevWr = call[p].wr], out)

\* lines 139-149: since, the attendance query and the statistics
attendance_summary_logs(p) ==
    /\ pc[p] = "fetched"
    /\ \E out \in StorageOutcomes :
          IF out = "raise"
          THEN /\ pc' = [pc EXCEPT ![p] = "done"]
               /\ res' = [res EXCEPT ![p] = Error(500, "storage")]
               /\ call' = call
          ELSE LET since == now - call[p].days
                   found == Find(call[p].student_id, since)
                   total == BagCardinality(found)
                   present == CountPresent(found)
                   absent == total - present
                   percentage == Percentage(present, total)
                   locked == call[p].student.locked_for_attendance
               IN  /\ pc' = [pc EXCEPT ![p] = "computed"]
                   /\ call' = [call EXCEPT ![p] =
                                 [@ EXCEPT !.since = since, !.total = total,
                                           !.present = present, !.absent = absent,
                                           !.percentage = percentage,
                                           !.locked = locked]]
                   /\ res' = res
    /\ UNCHANGED <<now, students, logs, calc>>

\* a slip: the rule locks but never unlocks
NeedsWrite_LockOnly(student, should_lock, locked) ==
    AutoLockApplies(student) /\ should_lock /\ ~locked

\* a slip: the comparison with the flag read is left out
NeedsWrite_Always(student, should_lock, locked) ==
    AutoLockApplies(student)

\* line 151 and 153: the rule is for engineering only, and the store is
\* written only when the rule's value differs from the flag that was read
NeedsWrite(student, should_lock, locked) ==
    AutoLockApplies(student) /\ should_lock # locked

\* a slip: the response keeps the flag that was read
ReportedLock_AsRead(student, should_lock, locked) == locked

\* line 157: locked = should_lock, inside both ifs
ReportedLock(student, should_lock, locked) ==
    IF NeedsWrite(student, should_lock, locked) THEN should_lock ELSE locked

\* a slip: the exception of update_one is swallowed
PolicyResponse_Swallow(c, out) ==
    Summary(c.total, c.present, c.absent, c.percentage,
            IF AutoLockApplies(c.student) /\ ShouldLock(c.percentage) # c.locked
            THEN ShouldLock(c.percentage) ELSE c.locked)

\* what the request answers once update_one has returned or raised
PolicyResponse(c, out) ==
    IF out = "ok"
    THEN Summary(c.total, c.present, c.absent, c.percentage,
                 ReportedLock(c.student, ShouldLock(c.percentage), c.locked))
    ELSE Error(500, "storage")

\* lines 150-162: the auto-lock rule, its update_one and the response
attendance_summary_policy(p) ==
    LET c == call[p]
        should_lock == ShouldLock(c.percentage)
    IN  /\ pc[p] = "computed"
        /\ pc' = [pc EXCEPT ![p] = "done"]
        /\ IF NeedsWrite(c.student, should_lock, c.locked)
           THEN \E out \in UpdateOutcomes :
                  /\ res' = [res EXCEPT ![p] = PolicyResponse(c, out)]
                  /\ IF out = "raise"
                     THEN /\ students' = students
                          /\ call' = [call EXCEPT ![p].wr = "raised"]
                     ELSE /\ students' = UpdateOne(c.student._id, should_lock)
                          /\ call' = AfterWrite(p,
                                 [c EXCEPT !.wr = IF out = "ok" THEN "applied"
                                                  ELSE "raised_applied",
                                           !.last = TRUE],
                                 c.student._id)
           ELSE /\ res' = [res EXCEPT ![p] = PolicyResponse(c, "ok")]
                /\ UNCHANGED <<students, call>>
        /\ UNCHANGED <<now, logs, calc>>

(* ----------------------- manual_lock, manual_unlock ------------------- *)

\* update_one({"_id": ObjectId(student_id)}, {"$set": {... : v}}), the 404
\* of matched_count == 0, and {"locked": v}
SetLock(p, sid, v, out) ==
    LET oid == ObjectId(sid)
        c == [IdleCall EXCEPT !.op = IF v THEN "lock" ELSE "unlock",
                              !.student_id = sid]
        applied == out # "raise" /\ oid \in DOMAIN students
    IN  /\ pc[p] = "idle"
        /\ pc' = [pc EXCEPT ![p] = "done"]
        /\ res' = [res EXCEPT ![p] =
                     IF oid = InvalidId THEN Error(500, "InvalidId")
                     ELSE IF out # "ok" THEN Error(500, "storage")
                     ELSE IF MatchedCount(oid) = 0
                          THEN Error(404, "Student not found")
                     ELSE Locked(v)]
        /\ IF applied
           THEN /\ students' = UpdateOne(oid, v)
                /\ call' = AfterWrite(p, [c EXCEPT !.wr = IF out = "ok" THEN "applied"
                                                          ELSE "raised_applied",
                                                   !.last = TRUE], oid)
           ELSE /\ students' = students
                /\ call' = [call EXCEPT ![p] =
                              [c EXCEPT !.wr = IF out = "raise" /\ oid # InvalidId
                                               THEN "raised" ELSE "none"]]
        /\ UNCHANGED <<now, logs, calc>>

\* POST /api/students/{student_id}/lock
manual_lock(p, sid) ==
    \E out \in UpdateOutcomes : SetLock(p, sid, TRUE, out)

\* POST /api/students/{student_id}/unlock
manual_unlock(p, sid) ==
    \E out \in UpdateOutcomes : SetLock(p, sid, FALSE, out)

(* ------------------------------ the rest ------------------------------ *)

\* POST /api/attendance: the validated payload is inserted
log_attendance(sid, status, timestamp) ==
    /\ BagCardinality(logs) < MaxLogs
    /\ logs' = CreateDocument([student_id |-> sid,
                               status |-> StoredStatus(status),
                               timestamp |-> IF timestamp = Unset THEN now
                                             ELSE timestamp])
    /\ call' = AfterWrite(0, IdleCall, InvalidId)
    /\ UNCHANGED <<now, students, pc, res, calc>>

\* the response has been delivered
Reset(p) ==
    /\ pc[p] = "done"
    /\ pc' = [pc EXCEPT ![p] = "idle"]
    /\ call' = [call EXCEPT ![p] = IdleCall]
    /\ res' = [res EXCEPT ![p] = NoRes]
    /\ UNCHANGED <<now, students, logs, calc>>

\* a day passes
Tick ==
    /\ now < MaxNow
    /\ now' = now + 1
    /\ call' = [p \in Procs |-> Apart(call[p])]
    /\ UNCHANGED <<students, logs, pc, res, calc>>

(* --------------- the percentage computation on its own ---------------- *)

\* record counts given to the computation: every small count, the first
\* count with a tie at the third decimal (1/32 is 3.125%), and a count
\* where rounding moves a percentage onto the threshold
TotalInputs == (0..MaxTotal) \cup {32, 5003}

calc_input(present, total) ==
    /\ calc.stage = "idle"
    /\ calc' = [calc EXCEPT !.stage = "input", !.present = present,
                            !.total = total]
    /\ UNCHANGED <<now, students, logs, pc, call, res>>

\* lines 147 and 152 applied to the counts
calc_apply ==
    /\ calc.stage = "input"
    /\ calc' = [calc EXCEPT !.stage = "output",
                            !.percentage = Percentage(calc.present, calc.total),
                            !.should_lock =
                                ShouldLock(Percentage(calc.present, calc.total))]
    /\ UNCHANGED <<now, students, logs, pc, call, res>>

NextCalc ==
    \/ \E total \in TotalInputs : \E present \in 0..total :
          calc_input(present, total)
    \/ calc_apply

SpecCalc == Init /\ [][NextCalc]_vars

\* requests arrive one at a time; attendance is logged and time passes
\* at any moment, also between the steps of a summary
Next ==
    \/ \E sid \in StudentIdInputs, days \in DaysInputs :
          attendance_summary_find_student(1, sid, days)
    \/ attendance_summary_again(1)
    \/ attendance_summary_logs(1)
    \/ attendance_summary_policy(1)
    \/ \E sid \in StudentIdInputs : manual_lock(1, sid)
    \/ \E sid \in StudentIdInputs : manual_unlock(1, sid)
    \/ \E sid \in LogStudentInputs, status \in StatusInputs,
          timestamp \in TimestampInputs : log_attendance(sid, status, timestamp)
    \/ Reset(1)
    \/ Tick

Spec == Init /\ [][Next]_vars

\* the requests of the concurrent runs: all for the engineering student
RaceStudent == HexIds[1]
RaceDays == MinDays
RaceStatuses == {"present", "absent"}

\* requests for one student run concurrently, each step of each request
\* interleaved with the steps of the others
NextRace ==
    \/ \E p \in Procs : attendance_summary_find_student(p, RaceStudent, RaceDays)
    \/ \E p \in Procs : attendance_summary_logs(p)
    \/ \E p \in Procs : attendance_summary_policy(p)
    \/ \E p \in Procs : manual_lock(p, RaceStudent)
    \/ \E p \in Procs : manual_unlock(p, RaceStudent)
    \/ \E status \in RaceStatuses : log_attendance(RaceStudent, status, Unset)
    \/ \E p \in Procs : Reset(p)

SpecRace == Init /\ [][NextRace]_vars

(* ============================ properties ============================== *)

\* request p has answered a summary
IsSummary(p) == pc[p] = "done" /\ res[p].kind = "summary"

\* request p is a summary request that has finished
SummaryDone(p) == pc[p] = "done" /\ call[p].op = "summary"

\* request p is a lock or unlock request that has finished
SetLockDone(p) == pc[p] = "done" /\ call[p].op \in {"lock", "unlock"}

\* the flag the store holds for the student of request p
StoredLock(p) == students[ObjectId(call[p].student_id)].locked_for_attendance

Engineering(p) == call[p].student.category = "engineering"

\* the student id of request p names a stored student
KnownStudent(p) == ObjectId(call[p].student_id) \in DOMAIN students

\* the attendance documents of student_id with timestamp >= since that the
\* store holds now, and those of them that read "present"
InStore(student_id, since) ==
    BagCardinality([l \in {x \in DOMAIN logs : x.student_id = student_id
                                              /\ x.timestamp >= since}
                    |-> logs[l]])
PresentInStore(student_id, since) ==
    BagCardinality([l \in {x \in DOMAIN logs : x.student_id = student_id
                                              /\ x.timestamp >= since
                                              /\ x.status = "present"}
                    |-> logs[l]])

\* C1: after a summary of an engineering student that ran with no other
\* request changing the store, the stored flag is TRUE when the computed
\* percentage is below 75.00 and FALSE when it is 75.00 or more, whatever
\* flag was stored before and whatever records were in the window.
C1_AutoLockStored ==
    \A p \in Procs :
        (IsSummary(p) /\ Engineering(p) /\ call[p].clean)
            => (StoredLock(p) = (res[p].percentage < LockThreshold))

\* C1 witness: the summary read an unlocked engineering student, found
\* records with a percentage below 75 and left the stored flag TRUE.
C1_Witness ==
    \E p \in Procs :
        /\ IsSummary(p) /\ Engineering(p) /\ call[p].clean
        /\ ~call[p].student.locked_for_attendance
        /\ res[p].total > 0 /\ res[p].percentage < LockThreshold
        /\ StoredLock(p)

\* C2: a summary of a student that is not in engineering never writes; the
\* summary reports the flag it read, and with no other request changing the
\* store the stored flag is still that flag, whatever the percentage.
C2_OtherCategoryUntouched ==
    \A p \in Procs :
        (call[p].op = "summary" /\ call[p].student # NoDoc /\ ~Engineering(p))
            => /\ call[p].wr = "none"
               /\ IsSummary(p) =>
                     res[p].locked_for_attendance
                         = call[p].student.locked_for_attendance
               /\ (pc[p] = "done" /\ call[p].clean) =>
                     StoredLock(p) = call[p].student.locked_for_attendance

\* C2 witness: a summary of the jee student with a percentage below 75
\* that read an unlocked flag and left it unlocked.
C2_Witness ==
    \E p \in Procs :
        /\ IsSummary(p) /\ call[p].student.category = "jee" /\ call[p].clean
        /\ res[p].total > 0 /\ res[p].percentage < LockThreshold
        /\ ~res[p].locked_for_attendance /\ ~StoredLock(p)

\* C3: a summary request made again right after its answer, with the same
\* window and no other request changing the store in between, answers the
\* same summary and writes nothing; and any summary request writes only
\* for an engineering student whose rule value differs from the flag read.
C3_Idempotent ==
    \A p \in Procs :
        /\ (IsSummary(p) /\ call[p].prev.kind = "summary" /\ call[p].clean
                /\ call[p].since = call[p].prevSince)
              => (res[p] = call[p].prev /\ call[p].wr = "none")
        /\ (call[p].op = "summary" /\ call[p].wr # "none")
              => /\ Engineering(p)
                 /\ ShouldLock(call[p].percentage)
                        # call[p].student.locked_for_attendance

\* C3 witness: the first request wrote the flag, the second one answered
\* the same summary without writing.
C3_Witness ==
    \E p \in Procs :
        /\ IsSummary(p) /\ call[p].prev.kind = "summary" /\ call[p].clean
        /\ call[p].since = call[p].prevSince
        /\ call[p].prevWr = "applied" /\ call[p].wr = "none"
        /\ res[p].total > 0

\* a summary request with a well-formed id of no student answers 404 and
\* writes nothing
WellFormedUnknown404 ==
    \A p \in Procs :
        (SummaryDone(p) /\ ~KnownStudent(p)
            /\ ObjectId(call[p].student_id) # InvalidId
            /\ call[p].days \in MinDays..MaxDays /\ res[p].cause # "storage")
            => /\ res[p].kind = "error" /\ res[p].status = 404
               /\ call[p].wr = "none"

\* C4: a summary request whose student id matches no student document
\* answers 404 and writes nothing (the days being in range and the store
\* answering).
C4_UnknownStudent404 ==
    \A p \in Procs :
        (SummaryDone(p) /\ ~KnownStudent(p)
            /\ call[p].days \in MinDays..MaxDays /\ res[p].cause # "storage")
            => /\ res[p].kind = "error" /\ res[p].status = 404
               /\ call[p].wr = "none"

\* C5: a lock or unlock request (the store answering) on a stored student
\* answers {locked: v} and leaves v stored; on an id that matches no
\* student it answers 404 and writes nothing.
C5_SetLock ==
    \A p \in Procs :
        (SetLockDone(p) /\ res[p].cause # "storage")
            => IF KnownStudent(p)
               THEN /\ res[p] = Locked(call[p].op = "lock")
                    /\ call[p].last => StoredLock(p) = (call[p].op = "lock")
               ELSE /\ res[p].kind = "error" /\ res[p].status = 404
                    /\ call[p].wr = "none"

\* lock and unlock requests with a well-formed id: {locked: v} and v stored
\* for a stored student, 404 and no write for any other
WellFormedSetLock ==
    \A p \in Procs :
        (SetLockDone(p) /\ res[p].cause # "storage"
            /\ ObjectId(call[p].student_id) # InvalidId)
            => IF KnownStudent(p)
               THEN /\ res[p] = Locked(call[p].op = "lock")
                    /\ call[p].last => StoredLock(p) = (call[p].op = "lock")
               ELSE /\ res[p].kind = "error" /\ res[p].status = 404
                    /\ call[p].wr = "none"

\* a lock or unlock request changes the document of no other student, and
\* nothing at all when its id matches none
SetLockFrame ==
    [][\A p \in Procs :
          (pc[p] = "idle" /\ pc'[p] = "done" /\ call'[p].op \in {"lock", "unlock"})
              => \A o \in StudentOids :
                    o # ObjectId(call'[p].student_id) => students'[o] = students[o]]_vars

\* C6: the stored flag is the value of the write applied last, whether a
\* manual one or the auto-lock write of a summary, and whatever was read
\* or written before it.
C6_LastWriteWins ==
    \A p \in Procs :
        (pc[p] = "done" /\ call[p].last)
            => /\ call[p].wr \in {"applied", "raised_applied"}
               /\ StoredLock(p) = IF call[p].op = "summary"
                                  THEN ShouldLock(call[p].percentage)
                                  ELSE call[p].op = "lock"

\* C6 witness: a manual unlock was applied after a summary had read the
\* student, and the summary's auto-lock write then set the flag to TRUE.
C6_Witness ==
    \E p, q \in Procs :
        /\ IsSummary(p) /\ call[p].stale /\ call[p].wr = "applied"
        /\ call[p].last /\ res[p].locked_for_attendance
        /\ SetLockDone(q) /\ call[q].op = "unlock" /\ call[q].wr = "applied"
        /\ ~call[q].last
        /\ StoredLock(p)

\* the converse race: the auto-lock write of a summary was applied, and a
\* manual unlock applied after it stays
C6_ManualLandsLast ==
    \E p, q \in Procs :
        /\ IsSummary(p) /\ call[p].wr = "applied" /\ ~call[p].last
        /\ res[p].locked_for_attendance
        /\ SetLockDone(q) /\ call[q].op = "unlock" /\ call[q].last
        /\ ~StoredLock(q)

\* C7: when the update_one of a summary raises, the request answers the
\* error and no summary; a summary whose lock value differs from the flag
\* read is answered only when the write has been applied.
C7_NoUnpersistedLock ==
    \A p \in Procs :
        /\ (SummaryDone(p) /\ call[p].wr \in {"raised", "raised_applied"})
              => (res[p].kind = "error" /\ res[p].status = 500)
        /\ (IsSummary(p) /\ res[p].locked_for_attendance
                                # call[p].student.locked_for_attendance)
              => call[p].wr = "applied"

\* C7 witness: the write of a summary raised without being applied; the
\* request answered 500 and the store holds the old flag.
C7_Witness ==
    \E p \in Procs :
        /\ SummaryDone(p) /\ call[p].wr = "raised" /\ call[p].clean
        /\ res[p].kind = "error"
        /\ StoredLock(p) # ShouldLock(call[p].percentage)

\* C8: the percentage is present / total * 100 to the nearest hundredth
\* (2 of 3 is 66.67, 7 of 10 is 70.00), it is 0.00 when total is 0, and
\* the rule compares this rounded value with 75.00.
C8_Percentage ==
    calc.stage = "output" =>
        /\ calc.total = 0 => calc.percentage = 0
        /\ calc.total > 0 =>
              2 * Abs(calc.percentage * calc.total - calc.present * 10000)
                  <= calc.total
        /\ (calc.present = 2 /\ calc.total = 3) => calc.percentage = 6667
        /\ (calc.present = 7 /\ calc.total = 10) => calc.percentage = 7000
        /\ calc.should_lock = (calc.percentage < LockThreshold)
        /\ (calc.present = 3752 /\ calc.total = 5003) => ~calc.should_lock

\* C8 witness: 2 present of 3 gave 66.67 and a lock.
C8_Witness ==
    /\ calc.stage = "output" /\ calc.present = 2 /\ calc.total = 3
    /\ calc.percentage = 6667 /\ calc.should_lock

\* C9: a summary (no record added and no day passed since) has total = the
\* stored records of the requested student id with timestamp >= now - days,
\* present = those of them that read "present", absent = total - present.
C9_Counts ==
    \A p \in Procs :
        IsSummary(p) =>
            /\ res[p].absent = res[p].total - res[p].present
            /\ 0 <= res[p].present /\ res[p].present <= res[p].total
            /\ (call[p].clean /\ call[p].since = now - call[p].days) =>
                  /\ res[p].total = InStore(call[p].student_id, now - call[p].days)
                  /\ res[p].present
                        = PresentInStore(call[p].student_id, now - call[p].days)

\* C9 witness: the store holds a record of the student older than the
\* window and a future-dated absent one; the summary counts the second
\* only.
C9_Witness ==
    \E p \in Procs :
        /\ IsSummary(p) /\ call[p].clean /\ call[p].since = now - call[p].days
        /\ res[p].total = 1 /\ res[p].absent = 1
        /\ \E l \in DOMAIN logs :
              l.student_id = call[p].student_id /\ l.timestamp < call[p].since
        /\ \E l \in DOMAIN logs :
              l.student_id = call[p].student_id /\ l.timestamp > now

\* C10: every summary of a student read as engineering reports
\* locked_for_attendance = (percentage < 75.00), whatever other requests
\* did meanwhile and whatever the store holds when it is answered.
C10_ReportedLock ==
    \A p \in Procs :
        (IsSummary(p) /\ Engineering(p))
            => (res[p].locked_for_attendance = (res[p].percentage < LockThreshold))

\* C10 witness: a manual write landed after the summary read the student,
\* and the summary reports a lock value that the store does not hold.
C10_Witness ==
    \E p \in Procs :
        /\ IsSummary(p) /\ Engineering(p) /\ call[p].stale
        /\ res[p].locked_for_attendance # StoredLock(p)

====
